---- MODULE Spec2Model ----
(***************************************************************************)
(* The interactive release menu of update/menu.go: row construction from   *)
(* a result set (NewMenu / fromResults / AddItem), the one-shot listing    *)
(* (Print), the interactive loop (Run) with its key dispatch, the in-place *)
(* redraw (printInteractive over ClearableLineWriter) and the projection   *)
(* of the checked rows on confirmation.                                    *)
(***************************************************************************)
EXTENDS Integers, Sequences, FiniteSets

VARIABLES
    results,     \* the Result handed to NewMenu, in ServiceIDs() order
    verbosity,   \* the verbosity handed to NewMenu
    width,       \* ClearableLineWriter.width
    lines,       \* ClearableLineWriter.lines
    items,       \* Menu.items
    selectable,  \* Menu.selectable
    cursor,      \* Menu.cursor
    pc,          \* "init" | "new" (constructed) | "loop" (Run blocked in getChar) | "done" (Run returned)
    specs,       \* the map Run returns
    err,         \* the error Run returns
    last,        \* what the latest getChar call returned
    reads,       \* getChar calls made by Run
    renders,     \* printInteractive calls made by Run
    prints,      \* Print calls
    hides,       \* hideCursor sequences emitted
    shows,       \* showCursor sequences emitted
    upBy,        \* argument of the moveCursorUp emitted by the latest Clear (0: none emitted)
    frame,       \* decorations of the rows written by the latest printInteractive
    toggled,     \* some space key has been dispatched by Run
    runKind,     \* history: kind of the latest keys of a followed user ("none" | "next" | "previous" | "toggle")
    runLen,      \* history: how many keys of that kind were dispatched in a row
    runFrom,     \* history: cursor and checked flags before the first of them
    lineLen      \* history: bytes of the line handed to the latest lone Writeln call

\* The history variables: written only by the actions that follow a user or a writer.
history == << runKind, runLen, runFrom, lineLen >>

vars == << results, verbosity, width, lines, items, selectable, cursor, pc,
           specs, err, last, reads, renders, prints, hides, shows, upBy,
           frame, toggled, runKind, runLen, runFrom, lineLen >>

-----------------------------------------------------------------------------
(* Bounds of the model *)

MaxRes == 1       \* resources in a result set handed to a menu that is run
MaxBuildRes == 2  \* resources in a result set handed to NewMenu alone
MaxPer == 2       \* per-container updates of one resource
MaxKeys == 2      \* keys read in one Run
MaxPrints == 1    \* Print calls before Run
MaxWidth == 4     \* terminal width of a writer used on its own
MaxLen == 9       \* bytes of a line handed to a writer used on its own
MaxLines == 12    \* lines tracked by a writer used on its own

-----------------------------------------------------------------------------
(* Inputs *)

\* Resource identifiers, listed in the sorted order ServiceIDs() returns.
IdNames == << "a:deployment/a", "a:deployment/b", "a:deployment/c", "a:deployment/d" >>

\* Container names of one resource, in PerContainer order.
ContainerNames == << "c1", "c2", "c3", "c4" >>

ReleaseStatusIgnored == "ignored"
ReleaseStatusSkipped == "skipped"
ReleaseStatusSuccess == "success"
ReleaseStatusFailed == "failed"

Statuses == { ReleaseStatusIgnored, ReleaseStatusSkipped, ReleaseStatusSuccess, ReleaseStatusFailed }

\* The statuses of the result sets handed to a menu that is run.
RunStatuses == { ReleaseStatusSkipped, ReleaseStatusSuccess }

ErrorTexts == { "", "boom" }

\* The zero flux.ResourceID and the zero ContainerUpdate.
NoID == ""
NoUpdate == [ Container |-> "", Current |-> "", Target |-> "" ]

ContainerUpdate(k) == [ Container |-> ContainerNames[k], Current |-> "img:1", Target |-> "2" ]

\* One ControllerResult per resource; entry r of a result set belongs to IdNames[r].
ControllerResults(statuses) ==
    { [ Status |-> s, Error |-> e, PerContainer |-> [ k \in 1..n |-> ContainerUpdate(k) ] ] :
        s \in statuses, e \in ErrorTexts, n \in 0..MaxPer }

ResultSets(statuses, max) == UNION { [ 1..n -> ControllerResults(statuses) ] : n \in 0..max }

Verbosities == 0..2

Widths == { 40 }

\* What getChar can return: ascii, keyCode, err.
NoErr == "nil"
InputErrs == { "EOF" }

AsciiCodes == { 3, 27, 113, 32, 13, 9, 106, 107, 120 }

Keys ==
    { [ ascii |-> a, keyCode |-> 0, err |-> NoErr ] : a \in AsciiCodes }
    \cup { [ ascii |-> 0, keyCode |-> k, err |-> NoErr ] : k \in { 37, 38, 40 } }
    \cup { [ ascii |-> 120, keyCode |-> 40, err |-> NoErr ] }
    \cup { [ ascii |-> 0, keyCode |-> 0, err |-> e ] : e \in InputErrs }

NoKey == [ ascii |-> 0, keyCode |-> 0, err |-> NoErr ]

ErrNoChanges == "No changes found."
ErrAborted == "Aborted."

-----------------------------------------------------------------------------
(* menuItem *)

checkable(i) == i.update.Container # ""

updates(i) ==
    IF i.update.Container # ""
    THEN i.update.Container \o ": " \o i.update.Current \o " -> " \o i.update.Target
    ELSE i.error

\* Bytes of the checkbox column: " " or a three-byte glyph.
checkbox(i) ==
    IF ~checkable(i) THEN "blank"
    ELSE IF i.checked THEN "checked"
    ELSE "unchecked"

GlyphLen(g) == IF g \in { "blank", "none" } THEN 1 ELSE 3

-----------------------------------------------------------------------------
(* ClearableLineWriter *)

tableHeading == "CONTROLLER \tSTATUS \tUPDATES"

instructions == "Use arrow keys and [Space] to deselect containers; hit [Enter] to release selected."

\* Lines Writeln adds for a line of len bytes (before the newline is appended).
Writeln(len, w) == (len \div w) + 1

\* Clear that moves the cursor up but keeps the count.
ClearKeepsCount(n) == IF n = 0 THEN << 0, 0 >> ELSE << n, n >>

\* Clear: << argument of moveCursorUp (0 when nothing is emitted), lines afterwards >>.
Clear(n) == IF n = 0 THEN << 0, 0 >> ELSE << n, 0 >>

-----------------------------------------------------------------------------
(* Row construction *)

\* AddItem that leaves the checked flag of a checkable item unset.
AddItemUnchecked(its, sel, mi) ==
    IF checkable(mi)
    THEN << Append(its, mi), sel + 1 >>
    ELSE << Append(its, mi), sel >>

\* AddItem counting every item, checkable or not.
AddItemCountsAll(its, sel, mi) ==
    IF checkable(mi)
    THEN << Append(its, [ mi EXCEPT !.checked = TRUE ]), sel + 1 >>
    ELSE << Append(its, mi), sel + 1 >>

\* AddItem: << items, selectable >> after adding mi.
AddItem(its, sel, mi) ==
    IF checkable(mi)
    THEN << Append(its, [ mi EXCEPT !.checked = TRUE ]), sel + 1 >>
    ELSE << Append(its, mi), sel >>

menuItem(id, status, error, update) ==
    [ id |-> id, status |-> status, error |-> error, update |-> update, checked |-> FALSE ]

RECURSIVE AddItems(_, _, _)
AddItems(its, sel, mis) ==
    IF mis = << >> THEN << its, sel >>
    ELSE LET r == AddItem(its, sel, Head(mis))
         IN  AddItems(r[1], r[2], Tail(mis))

\* The verbosity switch with the two thresholds exchanged.
FilteredSwapped(result, v) ==
    \/ result.Status = ReleaseStatusIgnored /\ v < 1
    \/ result.Status = ReleaseStatusSkipped /\ v < 2

\* The verbosity switch of fromResults: TRUE when the resource is skipped over.
Filtered(result, v) ==
    \/ result.Status = ReleaseStatusIgnored /\ v < 2
    \/ result.Status = ReleaseStatusSkipped /\ v < 1

\* fromResults adding the error row after the per-container rows.
ItemsOfErrorLast(resourceID, result) ==
    [ k \in 1..Len(result.PerContainer) |->
        [ id |-> resourceID, status |-> result.Status, error |-> "",
          update |-> result.PerContainer[k], checked |-> FALSE ] ]
    \o (IF result.Error # ""
        THEN << [ id |-> resourceID, status |-> result.Status, error |-> result.Error,
                  update |-> NoUpdate, checked |-> FALSE ] >>
        ELSE << >>)
    \o (IF result.Error = "" /\ Len(result.PerContainer) = 0
        THEN << [ id |-> resourceID, status |-> result.Status, error |-> "",
                  update |-> NoUpdate, checked |-> FALSE ] >>
        ELSE << >>)

\* fromResults adding the placeholder row whenever there is no per-container update.
ItemsOfPlaceholderOnError(resourceID, result) ==
    (IF result.Error # ""
     THEN << [ id |-> resourceID, status |-> result.Status, error |-> result.Error,
               update |-> NoUpdate, checked |-> FALSE ] >>
     ELSE << >>)
    \o [ k \in 1..Len(result.PerContainer) |->
        [ id |-> resourceID, status |-> result.Status, error |-> "",
          update |-> result.PerContainer[k], checked |-> FALSE ] ]
    \o (IF Len(result.PerContainer) = 0
        THEN << [ id |-> resourceID, status |-> result.Status, error |-> "",
                  update |-> NoUpdate, checked |-> FALSE ] >>
        ELSE << >>)

\* The menu items one loop iteration of fromResults adds, in order.
ItemsOf(resourceID, result) ==
    (IF result.Error # ""
     THEN << menuItem(resourceID, result.Status, result.Error, NoUpdate) >>
     ELSE << >>)
    \o [ k \in 1..Len(result.PerContainer) |->
            menuItem(resourceID, result.Status, "", result.PerContainer[k]) ]
    \o (IF result.Error = "" /\ Len(result.PerContainer) = 0
        THEN << menuItem(resourceID, result.Status, "", NoUpdate) >>
        ELSE << >>)

RECURSIVE fromResultsFrom(_, _, _, _, _)
fromResultsFrom(r, res, v, its, sel) ==
    IF r > Len(res) THEN << its, sel >>
    ELSE IF Filtered(res[r], v) THEN fromResultsFrom(r + 1, res, v, its, sel)
    ELSE LET a == AddItems(its, sel, ItemsOf(IdNames[r], res[r]))
         IN  fromResultsFrom(r + 1, res, v, a[1], a[2])

fromResults(res, v) == fromResultsFrom(1, res, v, << >>, 0)

-----------------------------------------------------------------------------
(* Rendering *)

renderItem(item, inline) ==
    IF inline
    THEN "\t\t" \o updates(item)
    ELSE item.id \o "\t" \o item.status \o "\t" \o updates(item)

\* id of the row written before row n (the zero ResourceID before the first).
previd(its, n) == IF n = 1 THEN NoID ELSE its[n - 1].id

\* The index printInteractive passes for row n: checkable rows before it.
RenderIndex(its, n) == Cardinality({ j \in 1..(n - 1) : checkable(its[j]) })

\* renderInteractiveItem: cursor column, checkbox column, bytes of the line.
renderInteractiveItem(item, inline, index, cur) ==
    LET pre == IF index = cur THEN "cursor" ELSE "none"
    IN  [ pre |-> pre,
          box |-> checkbox(item),
          len |-> GlyphLen(pre) + GlyphLen(checkbox(item)) + 1 + Len(renderItem(item, inline)) ]

RECURSIVE SumLines(_, _)
SumLines(lens, w) ==
    IF lens = << >> THEN 0 ELSE Writeln(Head(lens), w) + SumLines(Tail(lens), w)

\* printInteractive: the rows written and the writer's line count afterwards.
printInteractive(its, cur, n, w) ==
    LET rows == [ k \in 1..Len(its) |->
                    renderInteractiveItem(its[k], previd(its, k) = its[k].id,
                                          RenderIndex(its, k), cur) ]
        c == Clear(n)
    IN  [ upBy |-> c[1],
          frame |-> [ k \in 1..Len(its) |-> [ pre |-> rows[k].pre, box |-> rows[k].box ] ],
          lines |-> c[2]
                    + Writeln(Len("   " \o tableHeading), w)
                    + SumLines([ k \in 1..Len(its) |-> rows[k].len ], w)
                    + Writeln(0, w)
                    + Writeln(Len(instructions), w) ]

\* Menu.Print: the writer's line count afterwards.
printLines(its, n, w) ==
    n + Writeln(Len(tableHeading), w)
      + SumLines([ k \in 1..Len(its) |-> Len(renderItem(its[k], previd(its, k) = its[k].id)) ], w)

-----------------------------------------------------------------------------
(* Cursor and selection *)

\* Go's % truncates toward zero.
GoMod(a, b) == IF a >= 0 THEN a % b ELSE -((-a) % b)

\* cursorDown that stops at the last selectable row instead of wrapping.
cursorDownClamped(cur, sel) == IF cur + 1 < sel THEN cur + 1 ELSE cur

cursorDown(cur, sel) == GoMod(cur + 1, sel)

\* cursorUp without the + m.selectable that keeps the dividend non-negative.
cursorUpNoWrap(cur, sel) == GoMod(cur - 1, sel)

cursorUp(cur, sel) == GoMod(cur + sel - 1, sel)

\* toggleSelected that deselects instead of flipping.
toggleSelectedClears(its, cur) ==
    [ its EXCEPT ![cur + 1].checked = FALSE ]

\* toggleSelected indexes m.items with m.cursor (0-based in Go, 1-based here).
toggleSelected(its, cur) ==
    [ its EXCEPT ![cur + 1].checked = ~its[cur + 1].checked ]

\* The confirm branch of Run: append the update of every checked item.
RECURSIVE Project(_, _)
Project(its, sp) ==
    IF its = << >> THEN sp
    ELSE LET item == Head(its)
             nsp == IF item.checked
                    THEN IF item.id \in DOMAIN sp
                         THEN [ sp EXCEPT ![item.id] = Append(@, item.update) ]
                         ELSE [ k \in DOMAIN sp \cup { item.id } |->
                                  IF k = item.id THEN << item.update >> ELSE sp[k] ]
                    ELSE sp
         IN  Project(Tail(its), nsp)

EmptySpecs == [ k \in {} |-> << >> ]

-----------------------------------------------------------------------------
(* Actions *)

InitWith(resultSets) ==
    /\ results \in resultSets
    /\ verbosity \in Verbosities
    /\ width \in Widths
    /\ lines = 0
    /\ items = << >>
    /\ selectable = 0
    /\ cursor = 0
    /\ pc = "init"
    /\ specs = EmptySpecs
    /\ err = NoErr
    /\ last = NoKey
    /\ reads = 0
    /\ renders = 0
    /\ prints = 0
    /\ hides = 0
    /\ shows = 0
    /\ upBy = 0
    /\ frame = << >>
    /\ toggled = FALSE
    /\ runKind = "none"
    /\ runLen = 0
    /\ runFrom = [ cursor |-> 0, checked |-> << >> ]
    /\ lineLen = 0

Init == InitWith(ResultSets(RunStatuses, MaxRes))

InitBuild == InitWith(ResultSets(Statuses, MaxBuildRes))

InitPrint == InitWith(ResultSets({ ReleaseStatusSuccess }, MaxRes))

NewMenu ==
    /\ pc = "init"
    /\ LET m == fromResults(results, verbosity)
       IN  /\ items' = m[1]
           /\ selectable' = m[2]
    /\ pc' = "new"
    /\ UNCHANGED << results, verbosity, width, lines, cursor, specs, err, last,
                    reads, renders, prints, hides, shows, upBy, frame, toggled >>
    /\ UNCHANGED history

MenuPrint ==
    /\ pc = "new"
    /\ prints < MaxPrints
    /\ lines' = printLines(items, lines, width)
    /\ prints' = prints + 1
    /\ UNCHANGED << results, verbosity, width, items, selectable, cursor, pc, specs,
                    err, last, reads, renders, hides, shows, upBy, frame, toggled >>
    /\ UNCHANGED history

\* Run rendering before it tests m.selectable.
RunEnterRenderFirst ==
    LET p == printInteractive(items, cursor, lines, width)
    IN  /\ lines' = p.lines
        /\ upBy' = p.upBy
        /\ frame' = p.frame
        /\ renders' = renders + 1
        /\ specs' = EmptySpecs
        /\ IF selectable = 0
           THEN /\ pc' = "done"
                /\ err' = ErrNoChanges
                /\ UNCHANGED hides
           ELSE /\ pc' = "loop"
                /\ hides' = hides + 1
                /\ UNCHANGED err

\* Run up to its first getChar call, or its return when nothing is selectable.
RunEnter ==
    IF selectable = 0
    THEN /\ pc' = "done"
         /\ err' = ErrNoChanges
         /\ specs' = EmptySpecs
         /\ UNCHANGED << lines, renders, hides, upBy, frame >>
    ELSE LET p == printInteractive(items, cursor, lines, width)
         IN  /\ lines' = p.lines
             /\ upBy' = p.upBy
             /\ frame' = p.frame
             /\ renders' = renders + 1
             /\ hides' = hides + 1
             /\ pc' = "loop"
             /\ specs' = EmptySpecs
             /\ UNCHANGED err

Run ==
    /\ pc = "new"
    /\ RunEnter
    /\ UNCHANGED << results, verbosity, width, items, selectable, cursor, last,
                    reads, prints, shows, toggled >>
    /\ UNCHANGED history

\* The state change of a handler that ends in printInteractive.
Redraw(its, cur) ==
    LET p == printInteractive(its, cur, lines, width)
    IN  /\ items' = its
        /\ cursor' = cur
        /\ lines' = p.lines
        /\ upBy' = p.upBy
        /\ frame' = p.frame
        /\ renders' = renders + 1

\* Run returns: the deferred showCursor is emitted.
Return(sp, e) ==
    /\ pc' = "done"
    /\ specs' = sp
    /\ err' = e
    /\ shows' = shows + 1

\* A read failure returning without the deferred showCursor.
OnReadErrorNoShow(key) ==
    /\ pc' = "done"
    /\ specs' = specs
    /\ err' = key.err
    /\ UNCHANGED << shows, items, cursor, lines, upBy, frame, renders, toggled >>

\* getChar failed.
OnReadError(key) ==
    /\ Return(specs, key.err)
    /\ UNCHANGED << items, cursor, lines, upBy, frame, renders, toggled >>

\* The quit case returning the checked rows as the confirm case does.
OnQuitProjects ==
    /\ Return(Project(items, specs), ErrAborted)
    /\ UNCHANGED << items, cursor, lines, upBy, frame, renders, toggled >>

\* case 3, 27, 'q'
OnQuit ==
    /\ Return(specs, ErrAborted)
    /\ UNCHANGED << items, cursor, lines, upBy, frame, renders, toggled >>

\* The toggle case moving on to the next row after flipping.
OnToggleAdvances ==
    /\ Redraw(toggleSelected(items, cursor), cursorDown(cursor, selectable))
    /\ toggled' = TRUE
    /\ UNCHANGED << pc, specs, err, shows >>

\* case ' '
OnToggle ==
    /\ Redraw(toggleSelected(items, cursor), cursor)
    /\ toggled' = TRUE
    /\ UNCHANGED << pc, specs, err, shows >>

\* case 13
OnConfirm ==
    /\ Return(Project(items, specs), NoErr)
    /\ lines' = lines + Writeln(0, width)
    /\ UNCHANGED << items, cursor, upBy, frame, renders, toggled >>

\* case 9, 'j' and keyCode 40
OnDown ==
    /\ Redraw(items, cursorDown(cursor, selectable))
    /\ UNCHANGED << pc, specs, err, shows, toggled >>

\* case 'k' and keyCode 38
OnUp ==
    /\ Redraw(items, cursorUp(cursor, selectable))
    /\ UNCHANGED << pc, specs, err, shows, toggled >>

\* An unmatched key redrawing the menu like the other cases.
OnOtherRedraws ==
    /\ Redraw(items, cursor)
    /\ UNCHANGED << pc, specs, err, shows, toggled >>

\* No case matches: the loop reads the next key.
OnOther ==
    UNCHANGED << items, cursor, lines, upBy, frame, renders, toggled,
                 pc, specs, err, shows >>

\* One iteration of Run's loop on what getChar returned.
Dispatch(key) ==
    IF key.err # NoErr THEN OnReadError(key)
    ELSE IF key.ascii \in { 3, 27, 113 } THEN OnQuit
    ELSE IF key.ascii = 32 THEN OnToggle
    ELSE IF key.ascii = 13 THEN OnConfirm
    ELSE IF key.ascii \in { 9, 106 } THEN OnDown
    ELSE IF key.ascii = 107 THEN OnUp
    ELSE IF key.keyCode = 40 THEN OnDown
    ELSE IF key.keyCode = 38 THEN OnUp
    ELSE OnOther

Key(key) ==
    /\ pc = "loop"
    /\ last' = key
    /\ reads' = reads + 1
    /\ Dispatch(key)
    /\ UNCHANGED << results, verbosity, width, selectable, prints, hides >>

AnyKey == \E key \in Keys : reads < MaxKeys /\ Key(key) /\ UNCHANGED history

Next ==
    \/ NewMenu
    \/ Run
    \/ AnyKey

Spec == Init /\ [][Next]_vars

\* Row construction alone, over result sets of every status.
NextBuild == NewMenu

SpecBuild == InitBuild /\ [][NextBuild]_vars

\* A menu that may be listed with Print before it is run.
NextPrint ==
    \/ NewMenu
    \/ MenuPrint
    \/ Run
    \/ AnyKey

SpecPrint == InitPrint /\ [][NextPrint]_vars

\* A user who deselects everything: at each of the selectableCount cursor
\* positions in turn, space and then Tab; then Enter.
Space == [ ascii |-> 32, keyCode |-> 0, err |-> NoErr ]
Tab == [ ascii |-> 9, keyCode |-> 0, err |-> NoErr ]
Enter == [ ascii |-> 13, keyCode |-> 0, err |-> NoErr ]

DeselectKey ==
    /\ Key(IF reads < 2 * selectable
           THEN IF reads % 2 = 0 THEN Space ELSE Tab
           ELSE Enter)
    /\ UNCHANGED history

NextDeselect ==
    \/ NewMenu
    \/ Run
    \/ DeselectKey

SpecDeselect == Init /\ [][NextDeselect]_vars

\* A followed user: the key is dispatched as by Key, and the history records how
\* many keys of its kind came in a row and the cursor and flags before them.
Followed(key, kind) ==
    /\ Key(key)
    /\ runKind' = kind
    /\ IF runKind = kind
       THEN /\ runLen' = runLen + 1
            /\ UNCHANGED runFrom
       ELSE /\ runLen' = 1
            /\ runFrom' = [ cursor |-> cursor,
                            checked |-> [ n \in DOMAIN items |-> items[n].checked ] ]
    /\ UNCHANGED lineLen

\* The keys Run takes for "next" and for "previous".
NextKeys ==
    { [ ascii |-> 9, keyCode |-> 0, err |-> NoErr ],
      [ ascii |-> 106, keyCode |-> 0, err |-> NoErr ],
      [ ascii |-> 0, keyCode |-> 40, err |-> NoErr ] }

PreviousKeys ==
    { [ ascii |-> 107, keyCode |-> 0, err |-> NoErr ],
      [ ascii |-> 0, keyCode |-> 38, err |-> NoErr ] }

\* A user who only navigates, for up to two rounds of the selectable rows.
NavKey ==
    \E key \in NextKeys \cup PreviousKeys :
        /\ reads < 2 * selectable
        /\ Followed(key, IF key \in NextKeys THEN "next" ELSE "previous")

NextNav ==
    \/ NewMenu
    \/ Run
    \/ NavKey

\* Navigation does not depend on the statuses: the menus of Success resources.
InitNav == InitWith(ResultSets({ ReleaseStatusSuccess }, MaxRes))

SpecNav == InitNav /\ [][NextNav]_vars

\* A user who toggles and navigates.
ToggleKey ==
    \/ reads < MaxKeys + 1 /\ Followed(Space, "toggle")
    \/ reads < MaxKeys + 1 /\ Followed(Tab, "next")

NextToggle ==
    \/ NewMenu
    \/ Run
    \/ ToggleKey

SpecToggle == Init /\ [][NextToggle]_vars

\* A ClearableLineWriter used on its own: NewClearableWriter on a terminal of
\* some width, then Writeln and Clear calls in any order.
InitWriter ==
    /\ results = << >>
    /\ verbosity = 0
    /\ width \in 1..MaxWidth
    /\ lines = 0
    /\ items = << >>
    /\ selectable = 0
    /\ cursor = 0
    /\ pc = "init"
    /\ specs = EmptySpecs
    /\ err = NoErr
    /\ last = NoKey
    /\ reads = 0
    /\ renders = 0
    /\ prints = 0
    /\ hides = 0
    /\ shows = 0
    /\ upBy = 0
    /\ frame = << >>
    /\ toggled = FALSE
    /\ runKind = "none"
    /\ runLen = 0
    /\ runFrom = [ cursor |-> 0, checked |-> << >> ]
    /\ lineLen = 0

WriterWriteln ==
    \E len \in 0..MaxLen :
        /\ lines < MaxLines
        /\ lines' = lines + Writeln(len, width)
        /\ lineLen' = len
        /\ UNCHANGED << results, verbosity, width, items, selectable, cursor, pc, specs,
                        err, last, reads, renders, prints, hides, shows, upBy, frame,
                        toggled, runKind, runLen, runFrom >>

WriterClear ==
    /\ upBy' = Clear(lines)[1]
    /\ lines' = Clear(lines)[2]
    /\ UNCHANGED << results, verbosity, width, items, selectable, cursor, pc, specs,
                    err, last, reads, renders, prints, hides, shows, frame,
                    toggled, runKind, runLen, runFrom, lineLen >>

NextWriter ==
    \/ WriterWriteln
    \/ WriterClear

SpecWriter == InitWriter /\ [][NextWriter]_vars

-----------------------------------------------------------------------------
(* Vocabulary of the properties *)

\* Indices of the rows that carry a payload, in row order.
SelectableRows(its) ==
    SelectSeq([ n \in 1..Len(its) |-> n ], LAMBDA n : its[n].update # NoUpdate)

\* Index of the c-th selectable row, c counted from 0.
SelectableRow(its, c) == SelectableRows(its)[c + 1]

\* The mapping of every groupID to the payloads of its selected payload rows.
SelectedPayloads(its) ==
    LET sel == SelectSeq(its, LAMBDA i : i.update # NoUpdate /\ i.checked)
    IN  [ id \in { sel[n].id : n \in DOMAIN sel } |->
            LET rows == SelectSeq(sel, LAMBDA i : i.id = id)
            IN  [ k \in 1..Len(rows) |-> rows[k].update ] ]

\* The verbosity levels of NewMenu: is a resource of this status listed?
Retained(status, v) ==
    CASE status = ReleaseStatusIgnored -> v >= 2
      [] status = ReleaseStatusSkipped -> v >= 1
      [] OTHER -> TRUE

\* The rows of one resource, without their selection flag.
RowsOf(its, id) ==
    LET rows == SelectSeq(its, LAMBDA i : i.id = id)
    IN  [ k \in 1..Len(rows) |->
            [ id |-> rows[k].id, status |-> rows[k].status,
              error |-> rows[k].error, update |-> rows[k].update ] ]

PayloadRows(id, result) ==
    [ k \in 1..Len(result.PerContainer) |->
        [ id |-> id, status |-> result.Status, error |-> "",
          update |-> result.PerContainer[k] ] ]

QuitCodes == { 3, 27, 113 }

\* The step is one iteration of Run's loop on a key of character code a.
KeyStep(a) == pc = "loop" /\ reads' = reads + 1 /\ last'.err = NoErr /\ last'.ascii = a

-----------------------------------------------------------------------------
(* C1 .. C10 *)

\* C1: a space keypress flips the selected flag of exactly the cursor-th
\* selectable row (counting only rows that carry a payload) and leaves the
\* flag of every other row unchanged.
C1_SpaceFlipsCursorRow ==
    [][ KeyStep(32) =>
          /\ Len(items') = Len(items)
          /\ \A n \in 1..Len(items) :
                items'[n].checked =
                    IF n = SelectableRow(items, cursor)
                    THEN ~items[n].checked
                    ELSE items[n].checked ]_vars

\* C2: after the confirm key Run returns a nil error and the mapping that
\* holds, per groupID, exactly the payloads of the selected payload rows in
\* row order; informational and deselected rows add no entry and no key.
C2_ConfirmReturnsSelectedPayloads ==
    (pc = "done" /\ reads > 0 /\ last.err = NoErr /\ last.ascii = 13)
        => (err = NoErr /\ specs = SelectedPayloads(items))

\* C3: every interactive render draws the cursor glyph on exactly one row,
\* the cursor-th selectable row, and never on an informational row.
C3_OneCursorGlyphOnCursorRow ==
    renders > 0
        => { n \in DOMAIN frame : frame[n].pre = "cursor" }
              = { SelectableRow(items, cursor) }

\* C4: in every state inside Run's loop, 0 <= cursor < selectableCount.
C4_CursorInRange == pc = "loop" => (0 <= cursor /\ cursor < selectable)

\* C4 witness: the loop has read 'k' at cursor 0 and wrapped to the last row.
C4_Witness ==
    /\ pc = "loop"
    /\ reads > 0
    /\ last.ascii = 107
    /\ selectable >= 2
    /\ cursor = selectable - 1

\* C5: with selectableCount = 0, Run returns NoChanges at once: no key read,
\* no render, no hide-cursor or show-cursor, rows and cursor unchanged.
C5_NoChangesImmediately ==
    [][ (pc = "new" /\ selectable = 0 /\ pc' # "new") =>
          /\ pc' = "done"
          /\ err' = ErrNoChanges
          /\ UNCHANGED << items, cursor, reads, renders, hides, shows, upBy, frame, lines >> ]_vars

\* C5 witness: Run has returned NoChanges on a menu of informational rows.
C5_Witness ==
    /\ pc = "done"
    /\ selectable = 0
    /\ Len(items) > 0
    /\ err = ErrNoChanges

\* C6: a quit key returns Aborted and a read failure returns the key source's
\* own error, both with a mapping without entries whatever was toggled; the
\* returned error tells NoChanges, Aborted, input failure and confirm apart.
C6_QuitAndReadErrorDiscard ==
    pc = "done" =>
        /\ last.err # NoErr => (err = last.err /\ specs = EmptySpecs)
        /\ (last.err = NoErr /\ last.ascii \in QuitCodes)
              => (err = ErrAborted /\ specs = EmptySpecs)
        /\ err = ErrNoChanges <=> reads = 0
        /\ err = ErrAborted <=> (reads > 0 /\ last.err = NoErr /\ last.ascii \in QuitCodes)
        /\ err \in InputErrs <=> (reads > 0 /\ last.err # NoErr)
        /\ err = NoErr <=> (reads > 0 /\ last.err = NoErr /\ last.ascii = 13)

\* C6 witness: Run has returned on 'q' after a toggle had deselected a row.
C6_Witness ==
    /\ pc = "done"
    /\ toggled
    /\ last.ascii = 113
    /\ \E n \in DOMAIN items : items[n].update # NoUpdate /\ ~items[n].checked
    /\ \E n \in DOMAIN items : items[n].update # NoUpdate /\ items[n].checked

C8_DeselectAllThenConfirm ==
    (pc = "done" /\ selectable > 0) =>
        /\ \A n \in DOMAIN items : items[n].update # NoUpdate => ~items[n].checked
        /\ err = NoErr
        /\ specs = EmptySpecs

\* With C8: a payload row that lies at or after position selectableCount of
\* the row list is never deselected, whatever keys are read.
UnreachableRowStaysSelected ==
    \A n \in DOMAIN items :
        (items[n].update # NoUpdate /\ n > selectable) => items[n].checked

\* C9 as claimed: a retained resource with N >= 1 payloads yields exactly N
\* rows, all selectable, in payload order, sharing groupID and status, and no
\* informational row, with or without an error text.
C9_PayloadRowsOnly ==
    pc = "new" =>
        \A r \in DOMAIN results :
            (Retained(results[r].Status, verbosity) /\ Len(results[r].PerContainer) >= 1)
                => RowsOf(items, IdNames[r]) = PayloadRows(IdNames[r], results[r])

\* C9 as amended: such a resource yields exactly N selectable rows, in payload
\* order, sharing groupID and status; it yields no informational row when it
\* has no error text, and one informational row, carrying the error text and
\* placed before the selectable rows, when it has one.
C9_PayloadRowsAfterErrorRow ==
    pc = "new" =>
        \A r \in DOMAIN results :
            (Retained(results[r].Status, verbosity) /\ Len(results[r].PerContainer) >= 1)
                => RowsOf(items, IdNames[r]) =
                      (IF results[r].Error = "" THEN << >>
                       ELSE << [ id |-> IdNames[r], status |-> results[r].Status,
                                 error |-> results[r].Error, update |-> NoUpdate ] >>)
                      \o PayloadRows(IdNames[r], results[r])

\* C9 witness: a listed resource with an error text and two payloads.
C9_Witness ==
    /\ pc = "new"
    /\ \E r \in DOMAIN results :
          /\ Retained(results[r].Status, verbosity)
          /\ Len(results[r].PerContainer) = 2
          /\ results[r].Error # ""
          /\ Len(RowsOf(items, IdNames[r])) = 3

\* C10: a retained resource with zero payloads yields exactly one row, which
\* is non-selectable and not selected; the row carries the error text when
\* the resource has one, and neither error text nor payload when it has none.
C10_OneInformationalRow ==
    pc = "new" =>
        \A r \in DOMAIN results :
            (Retained(results[r].Status, verbosity) /\ Len(results[r].PerContainer) = 0)
                => /\ RowsOf(items, IdNames[r]) =
                        << [ id |-> IdNames[r], status |-> results[r].Status,
                             error |-> results[r].Error, update |-> NoUpdate ] >>
                   /\ \A n \in DOMAIN items :
                        items[n].id = IdNames[r]
                            => (~items[n].checked /\ ~checkable(items[n]))

\* C10 witness: two listed resources without payloads, one with an error
\* text and one without.
C10_Witness ==
    /\ pc = "new"
    /\ \E r, q \in DOMAIN results :
          /\ Retained(results[r].Status, verbosity)
          /\ Retained(results[q].Status, verbosity)
          /\ Len(results[r].PerContainer) = 0
          /\ Len(results[q].PerContainer) = 0
          /\ results[r].Error # ""
          /\ results[q].Error = ""
    /\ Len(items) = 2

-----------------------------------------------------------------------------
(* C11 .. C20 *)

\* Every row one resource yields when it is listed, without the selection flag.
AllRows(id, result) ==
    (IF result.Error = "" THEN << >>
     ELSE << [ id |-> id, status |-> result.Status,
               error |-> result.Error, update |-> NoUpdate ] >>)
    \o PayloadRows(id, result)
    \o (IF result.Error = "" /\ result.PerContainer = << >>
        THEN << [ id |-> id, status |-> result.Status, error |-> "", update |-> NoUpdate ] >>
        ELSE << >>)

\* Position of a resource identifier in the order of ServiceIDs().
IdOrder(id) == CHOOSE r \in DOMAIN IdNames : IdNames[r] = id

\* C11: an Ignored resource contributes no row at verbosity 0 and 1 and all
\* its rows at 2; a Skipped resource no row at 0 and all its rows at 1 and 2;
\* any other status is never filtered; so the row count of a resource does
\* not decrease as the verbosity grows, and the rows kept follow the order
\* of the resource identifiers.
C11_VerbosityFilter ==
    pc = "new" =>
        /\ \A r \in DOMAIN results :
              LET id == IdNames[r]
                  kept == CASE results[r].Status = ReleaseStatusIgnored -> verbosity = 2
                            [] results[r].Status = ReleaseStatusSkipped -> verbosity \in { 1, 2 }
                            [] OTHER -> TRUE
              IN  /\ RowsOf(items, id) = IF kept THEN AllRows(id, results[r]) ELSE << >>
                  /\ \A v \in Verbosities :
                        v <= verbosity =>
                            Len(RowsOf(fromResults(results, v)[1], id)) <= Len(RowsOf(items, id))
        /\ \A m, n \in DOMAIN items : m < n => IdOrder(items[m].id) <= IdOrder(items[n].id)
        /\ \A n \in DOMAIN items : \E r \in DOMAIN results : items[n].id = IdNames[r]

\* C11 witness: at verbosity 1 an Ignored resource is dropped and the Skipped
\* resource after it is listed.
C11_Witness ==
    /\ pc = "new"
    /\ verbosity = 1
    /\ Len(results) = 2
    /\ results[1].Status = ReleaseStatusIgnored
    /\ results[2].Status = ReleaseStatusSkipped
    /\ Len(results[2].PerContainer) = 2
    /\ Len(items) >= 2
    /\ \A n \in DOMAIN items : items[n].id = IdNames[2]

\* C12: after construction and in every state of Run, selectableCount is the
\* number of rows that carry a payload.
C12_SelectableCountsPayloadRows ==
    pc # "init" => selectable = Cardinality({ n \in DOMAIN items : items[n].update # NoUpdate })

\* C12 witness: Run has dispatched a space key on a menu that has both an
\* informational row and payload rows.
C12_Witness ==
    /\ pc = "loop"
    /\ toggled
    /\ selectable = 2
    /\ Len(items) = 3

C14_ToggleTwiceRestores ==
    (runKind = "toggle" /\ runLen = 2)
        => /\ cursor = runFrom.cursor
           /\ [ n \in DOMAIN items |-> items[n].checked ] = runFrom.checked

\* C14 witness: two space keys in a row at cursor 1, after a Tab.
C14_Witness ==
    /\ pc = "loop"
    /\ runKind = "toggle"
    /\ runLen = 2
    /\ reads = 3
    /\ cursor = 1

\* The character codes and key codes Run's switch has a case for.
KnownAscii == { 3, 27, 113, 32, 13, 9, 106, 107 }
KnownKeyCodes == { 40, 38 }

\* C15: a key whose character code is none of 3, 27, 'q', ' ', 13, 9, 'j', 'k'
\* and whose key code is neither 40 nor 38 changes neither the cursor nor a
\* selected flag nor the tracked line count, triggers no render and does not
\* end the loop: Run goes on to read the next key.
C15_UnrecognizedKeyIsNoOp ==
    [][ ( /\ pc = "loop"
          /\ reads' = reads + 1
          /\ last'.err = NoErr
          /\ last'.ascii \notin KnownAscii
          /\ last'.keyCode \notin KnownKeyCodes )
        => ( /\ pc' = "loop"
             /\ UNCHANGED << cursor, items, lines, renders, upBy, frame, specs, err, shows >> ) ]_vars

\* C15 witness: after a toggle, the loop has read 'x' and still waits for a key.
C15_Witness ==
    /\ pc = "loop"
    /\ toggled
    /\ reads = 2
    /\ renders = 2
    /\ last = [ ascii |-> 120, keyCode |-> 0, err |-> NoErr ]

\* C16: a Run that enters the loop emits hide-cursor exactly once, before the
\* first key read, and show-cursor exactly once when it returns, on confirm,
\* on a quit key and on a read error; show-cursor never comes without a
\* hide-cursor before it.
C16_CursorHiddenDuringLoop ==
    /\ shows <= hides
    /\ pc \in { "init", "new" } => (hides = 0 /\ shows = 0)
    /\ pc = "loop" => (hides = 1 /\ shows = 0)
    /\ reads > 0 => hides = 1
    /\ (pc = "done" /\ selectable > 0) => (hides = 1 /\ shows = 1)
    /\ (pc = "done" /\ selectable = 0) => (hides = 0 /\ shows = 0)

\* C16 witness: Run has returned on a read error of the key source.
C16_Witness ==
    /\ pc = "done"
    /\ reads = 2
    /\ last.err \in InputErrs
    /\ shows = 1

\* ceil(a / b) for a >= 0, b >= 1.
CeilDiv(a, b) == (a + b - 1) \div b

\* C17: for every line length L >= 0 and terminal width W >= 1, Writeln adds
\* exactly max(1, ceil(L / W)) to the tracked line count; a line whose length
\* is an exact positive multiple of W counts as L / W lines.
C17_WritelnCountsWrappedLines ==
    [][ lines' > lines =>
          lines' - lines = IF CeilDiv(lineLen', width) > 1 THEN CeilDiv(lineLen', width) ELSE 1 ]_vars

\* The step is one iteration of Run's loop on a toggle, next or previous key.
StateChangingStep ==
    /\ pc = "loop"
    /\ reads' = reads + 1
    /\ last'.err = NoErr
    /\ \/ last'.ascii \in { 32, 9, 106, 107 }
       \/ last'.ascii \notin KnownAscii /\ last'.keyCode \in KnownKeyCodes

\* The lines an interactive render of these rows tracks, counted from zero.
FrameLines(its, cur) == printInteractive(its, cur, 0, width).lines

\* C18 as claimed: each toggle, next or previous key is followed by exactly
\* one render before the next key is read; the Clear that opens a render moves
\* the cursor up by the lines tracked during the preceding interactive render
\* and restarts the count from zero; the Clear that opens the first render of
\* a session emits nothing, also when Print() was called before Run().
C18_RedrawBookkeeping ==
    [][ /\ StateChangingStep =>
              /\ renders' = renders + 1
              /\ upBy' = FrameLines(items, cursor)
              /\ lines' = FrameLines(items', cursor')
        /\ (pc = "new" /\ pc' = "loop") =>
              /\ renders' = renders + 1
              /\ upBy' = 0
              /\ lines' = FrameLines(items', cursor') ]_vars

\* C18 as amended: the same, except that the Clear that opens the first
\* render emits nothing only when Print() was not called before Run(); after
\* Print() calls it moves the cursor up by the lines those calls tracked.
C18_RedrawBookkeepingAfterPrint ==
    [][ /\ StateChangingStep =>
              /\ renders' = renders + 1
              /\ upBy' = FrameLines(items, cursor)
              /\ lines' = FrameLines(items', cursor')
        /\ (pc = "new" /\ pc' = "loop") =>
              /\ renders' = renders + 1
              /\ upBy' = prints * printLines(items, 0, width)
              /\ prints = 0 => upBy' = 0
              /\ prints > 0 => upBy' > 0
              /\ lines' = FrameLines(items', cursor') ]_vars

\* C18 witness: a menu listed with Print(), then run; a toggle has redrawn it.
C18_Witness ==
    /\ pc = "loop"
    /\ prints = 1
    /\ toggled
    /\ renders = 2
    /\ upBy > 0
    /\ lines = upBy

\* The checked flags of the rows, in row order.
Flags(its) == [ n \in DOMAIN its |-> its[n].checked ]

\* The step is one iteration of Run's loop on a next or previous key.
NavigationStep ==
    /\ pc = "loop"
    /\ reads' = reads + 1
    /\ last'.err = NoErr
    /\ \/ last'.ascii \in { 9, 106, 107 }
       \/ last'.ascii \notin KnownAscii /\ last'.keyCode \in KnownKeyCodes

\* C19: no key adds, removes or reorders a row or changes a row's groupID,
\* status, errorText or payload, and selectableCount never changes; a
\* navigation key leaves every selected flag unchanged; a toggle key leaves
\* the cursor unchanged; Print() changes neither the cursor nor a flag.
C19_FrameConditions ==
    [][ /\ pc # "init" =>
              /\ selectable' = selectable
              /\ Len(items') = Len(items)
              /\ \A n \in DOMAIN items :
                    /\ items'[n].id = items[n].id
                    /\ items'[n].status = items[n].status
                    /\ items'[n].error = items[n].error
                    /\ items'[n].update = items[n].update
        /\ NavigationStep => Flags(items') = Flags(items)
        /\ KeyStep(32) => cursor' = cursor
        /\ prints' # prints => (cursor' = cursor /\ Flags(items') = Flags(items)) ]_vars

\* C19 witness: a menu listed with Print(), then run: a next key and then a
\* toggle at cursor 1.
C19_Witness ==
    /\ pc = "loop"
    /\ prints = 1
    /\ reads = 2
    /\ cursor = 1
    /\ last.ascii = 32
    /\ \E n \in DOMAIN items : ~items[n].checked

\* C20: in every state from construction on, a row without a payload has its
\* checked flag false: after construction exactly the selectable rows are
\* checked, and no key sequence checks an informational row.
C20_InformationalRowsUnchecked ==
    pc # "init" =>
        \A n \in DOMAIN items : items[n].update = NoUpdate => ~items[n].checked

====
